---- MODULE Spec2Model ----
(***************************************************************************)
(* MECHASENSE: the formula-based motor health score.                       *)
(*                                                                         *)
(* Numbers are fixed-point with two decimals: the integer n stands for the *)
(* JavaScript number n / Scale.  Every literal of calculateHealthScore has *)
(* at most two decimals, sensor values are taken on the same grid, and on  *)
(* that grid the double comparisons of the code agree with the exact ones  *)
(* (22/220 and 33/220 round to the doubles of the literals 0.10 and 0.15,  *)
(* 0.5/50 and 1/50 to those of 0.01 and 0.02).                             *)
(***************************************************************************)
EXTENDS Integers, Sequences, FiniteSets, TLC

VARIABLES reading, result, pc

(* The expert-system state of the AI Center page and its rule catalog. *)
VARIABLES rules, answers, results, conclusion, phase

(* POST /api/ml/predict: the deployment's ML_SERVICE_URL, the request body, *)
(* what the ML service did when it was called, and the response.           *)
VARIABLES ML_SERVICE_URL, body, mlOutcome, response, apiPc

(* The requests the handler has sent to the ML service. *)
VARIABLE mlCalls

(* Invocations of calculateHealthScore in progress, each with its locals. *)
VARIABLE calls

(* The prediction state of the AI Center page, the requests it has sent to *)
(* /api/ml/predict, and the Firebase events that have arrived.             *)
VARIABLES predictionResult, isLoadingPrediction, vibrationHistory,
          latestSensorData, requests, events

healthVars == <<reading, result, pc>>
callVars == <<calls>>
pageVars == <<predictionResult, isLoadingPrediction, vibrationHistory,
              latestSensorData, requests, events>>
expertVars == <<rules, answers, results, conclusion, phase>>
apiVars == <<ML_SERVICE_URL, body, mlOutcome, response, apiPc, mlCalls>>

vars == <<reading, result, pc, rules, answers, results, conclusion, phase,
          ML_SERVICE_URL, body, mlOutcome, response, apiPc, mlCalls,
          calls, predictionResult, isLoadingPrediction, vibrationHistory,
          latestSensorData, requests, events>>

Scale == 100

(* Grid steps probed on either side of every limit. *)
Spread == 1

----------------------------------------------------------------------------
(* JavaScript values of a field of SensorReading.                          *)

Undefined == [k |-> "undefined", v |-> 0]
Null == [k |-> "null", v |-> 0]
NaN == [k |-> "NaN", v |-> 0]
Num(n) == [k |-> "num", v |-> n]

(* ToNumber, applied by the arithmetic and relational operators. *)
ToNumber(value) ==
  CASE value.k = "num" -> value
    [] value.k = "null" -> Num(0)
    [] OTHER -> NaN

(* value < limit and value > limit; false when an operand is NaN. *)
LessThan(value, limit) == ToNumber(value).k = "num" /\ ToNumber(value).v < limit
GreaterThan(value, limit) == ToNumber(value).k = "num" /\ ToNumber(value).v > limit

Abs(x) == IF x < 0 THEN -x ELSE x
MathMax(a, b) == IF a > b THEN a ELSE b
MathMin(a, b) == IF a < b THEN a ELSE b

(* Math.round on a number x / Scale: the nearest integer, halves upwards. *)
MathRound(x) == ((x + Scale \div 2) \div Scale) * Scale

----------------------------------------------------------------------------
(* The parameters in the order calculateHealthScore evaluates them.        *)

EvalOrder ==
  << "vibrationRms", "motorSurfaceTemp", "bearingTemp", "motorCurrent",
     "powerFactor", "gridVoltage", "dustDensity", "gridFrequency" >>

Params == { EvalOrder[i] : i \in 1..Len(EvalOrder) }

StdParams == Params \ {"gridVoltage", "gridFrequency"}

(* The thresholds argument of each addFactor call. *)
thresholds(parameter) ==
  CASE parameter = "vibrationRms" -> [warning |-> 280, critical |-> 450, isLower |-> FALSE]
    [] parameter = "motorSurfaceTemp" -> [warning |-> 7000, critical |-> 8500, isLower |-> FALSE]
    [] parameter = "bearingTemp" -> [warning |-> 6500, critical |-> 8000, isLower |-> FALSE]
    [] parameter = "motorCurrent" -> [warning |-> 460, critical |-> 550, isLower |-> FALSE]
    [] parameter = "powerFactor" -> [warning |-> 85, critical |-> 70, isLower |-> TRUE]
    [] parameter = "dustDensity" -> [warning |-> 5000, critical |-> 10000, isLower |-> FALSE]

(* The maxPenalty argument of each addFactor call. *)
maxPenalty(parameter) ==
  CASE parameter = "vibrationRms" -> 25 * Scale
    [] parameter = "motorSurfaceTemp" -> 20 * Scale
    [] parameter = "bearingTemp" -> 20 * Scale
    [] parameter = "motorCurrent" -> 15 * Scale
    [] parameter = "powerFactor" -> 15 * Scale
    [] parameter = "dustDensity" -> 10 * Scale

nominalVoltage == 220 * Scale
nominalFrequency == 50 * Scale

----------------------------------------------------------------------------
(* calculateHealthScore.  st is the pair of locals (score, factors).       *)

Factor(parameter, value, level, penalty) ==
  [parameter |-> parameter, value |-> value, status |-> level, penalty |-> penalty]

(* score -= penalty; factors.push({...}) *)
Deduct(st, parameter, value, level, penalty) ==
  [score |-> st.score - penalty,
   factors |-> Append(st.factors, Factor(parameter, value, level, penalty))]

(* addFactor with inclusive comparisons against the limits. *)
addFactor_Inclusive(st, parameter, value, th, maxPen) ==
  IF value.k = "undefined" \/ value.k = "null" THEN st
  ELSE
    LET n == ToNumber(value)
        level ==
          IF n.k # "num" THEN "normal"
          ELSE IF th.isLower
          THEN IF n.v <= th.critical THEN "critical"
               ELSE IF n.v <= th.warning THEN "warning"
               ELSE "normal"
          ELSE IF n.v >= th.critical THEN "critical"
               ELSE IF n.v >= th.warning THEN "warning"
               ELSE "normal"
        penalty ==
          CASE level = "critical" -> maxPen
            [] level = "warning" -> (maxPen * 5) \div 10
            [] OTHER -> 0
    IN IF penalty > 0 THEN Deduct(st, parameter, value, level, penalty) ELSE st

(* addFactor that substitutes 0 for a missing value instead of returning. *)
addFactor_DefaultZero(st, parameter, value, th, maxPen) ==
  LET n == IF value.k = "undefined" \/ value.k = "null" THEN Num(0) ELSE value
      level ==
        IF th.isLower
        THEN IF LessThan(n, th.critical) THEN "critical"
             ELSE IF LessThan(n, th.warning) THEN "warning"
             ELSE "normal"
        ELSE IF GreaterThan(n, th.critical) THEN "critical"
             ELSE IF GreaterThan(n, th.warning) THEN "warning"
             ELSE "normal"
      penalty ==
        CASE level = "critical" -> maxPen
          [] level = "warning" -> (maxPen * 5) \div 10
          [] OTHER -> 0
  IN IF penalty > 0 THEN Deduct(st, parameter, n, level, penalty) ELSE st

(* addFactor that ignores thresholds.isLower. *)
addFactor_IgnoreIsLower(st, parameter, value, th, maxPen) ==
  IF value.k = "undefined" \/ value.k = "null" THEN st
  ELSE
    LET level ==
          IF GreaterThan(value, th.critical) THEN "critical"
          ELSE IF GreaterThan(value, th.warning) THEN "warning"
          ELSE "normal"
        penalty ==
          CASE level = "critical" -> maxPen
            [] level = "warning" -> (maxPen * 5) \div 10
            [] OTHER -> 0
    IN IF penalty > 0 THEN Deduct(st, parameter, value, level, penalty) ELSE st

addFactor(st, parameter, value, th, maxPen) ==
  IF value.k = "undefined" \/ value.k = "null" THEN st
  ELSE
    LET level ==
          IF th.isLower
          THEN IF LessThan(value, th.critical) THEN "critical"
               ELSE IF LessThan(value, th.warning) THEN "warning"
               ELSE "normal"
          ELSE IF GreaterThan(value, th.critical) THEN "critical"
               ELSE IF GreaterThan(value, th.warning) THEN "warning"
               ELSE "normal"
        penalty ==
          CASE level = "critical" -> maxPen
            [] level = "warning" -> (maxPen * 5) \div 10
            [] OTHER -> 0
    IN IF penalty > 0 THEN Deduct(st, parameter, value, level, penalty) ELSE st

(* Deviation without Math.abs. *)
Deviation_Signed(value, nominal) ==
  LET n == ToNumber(value)
  IN [nan |-> n.k # "num", num |-> n.v - nominal, den |-> nominal]

(* Math.abs(value - nominal) / nominal, kept as an exact fraction. *)
Deviation(value, nominal) ==
  LET n == ToNumber(value)
  IN [nan |-> n.k # "num", num |-> Abs(n.v - nominal), den |-> nominal]

(* deviation >= limit. *)
DeviationExceeds_Inclusive(deviation, limit) ==
  ~deviation.nan /\ deviation.num * Scale >= limit * deviation.den

(* deviation > limit, limit in units of 1 / Scale; false for NaN. *)
DeviationExceeds(deviation, limit) ==
  ~deviation.nan /\ deviation.num * Scale > limit * deviation.den

voltageFactor(st, value) ==
  IF value.k # "undefined"
  THEN LET deviation == Deviation(value, nominalVoltage)
       IN IF DeviationExceeds(deviation, 15)
          THEN Deduct(st, "gridVoltage", value, "critical", 10 * Scale)
          ELSE IF DeviationExceeds(deviation, 10)
          THEN Deduct(st, "gridVoltage", value, "warning", 5 * Scale)
          ELSE st
  ELSE st

(* frequencyFactor whose warning branch records the critical penalty. *)
frequencyFactor_PastedPenalty(st, value) ==
  IF value.k # "undefined"
  THEN LET deviation == Deviation(value, nominalFrequency)
       IN IF DeviationExceeds(deviation, 2)
          THEN Deduct(st, "gridFrequency", value, "critical", 5 * Scale)
          ELSE IF DeviationExceeds(deviation, 1)
          THEN [score |-> st.score - 2 * Scale,
                factors |-> Append(st.factors,
                              Factor("gridFrequency", value, "warning", 5 * Scale))]
          ELSE st
  ELSE st

frequencyFactor(st, value) ==
  IF value.k # "undefined"
  THEN LET deviation == Deviation(value, nominalFrequency)
       IN IF DeviationExceeds(deviation, 2)
          THEN Deduct(st, "gridFrequency", value, "critical", 5 * Scale)
          ELSE IF DeviationExceeds(deviation, 1)
          THEN Deduct(st, "gridFrequency", value, "warning", 2 * Scale)
          ELSE st
  ELSE st

(* Clamp without the lower bound. *)
Clamp_NoFloor(score) == MathMin(100 * Scale, score)

(* score = Math.max(0, Math.min(100, score)) *)
Clamp(score) == MathMax(0, MathMin(100 * Scale, score))

(* Category with a strict comparison at the Healthy threshold. *)
Category_Strict(score) ==
  IF score > 80 * Scale THEN "Healthy"
  ELSE IF score >= 60 * Scale THEN "At Risk"
  ELSE "Critical"

Category(score) ==
  IF score >= 80 * Scale THEN "Healthy"
  ELSE IF score >= 60 * Scale THEN "At Risk"
  ELSE "Critical"

(* factors.sort((a, b) => b.penalty - a.penalty): Array.prototype.sort is  *)
(* stable, so an element goes before the first one the comparator puts     *)
(* strictly after it.                                                      *)
(* An insertion that also passes elements of equal penalty. *)
RECURSIVE InsertFactor_Unstable(_, _)
InsertFactor_Unstable(sorted, f) ==
  IF sorted = <<>> THEN <<f>>
  ELSE IF Head(sorted).penalty - f.penalty <= 0
       THEN <<f>> \o sorted
       ELSE <<Head(sorted)>> \o InsertFactor_Unstable(Tail(sorted), f)

RECURSIVE InsertFactor(_, _)
InsertFactor(sorted, f) ==
  IF sorted = <<>> THEN <<f>>
  ELSE IF Head(sorted).penalty - f.penalty < 0
       THEN <<f>> \o sorted
       ELSE <<Head(sorted)>> \o InsertFactor(Tail(sorted), f)

RECURSIVE SortFactors(_)
SortFactors(factors) ==
  IF factors = <<>> THEN <<>>
  ELSE InsertFactor(SortFactors(SubSeq(factors, 1, Len(factors) - 1)),
                    factors[Len(factors)])

std(st, r, parameter) ==
  addFactor(st, parameter, r[parameter], thresholds(parameter), maxPenalty(parameter))

calculateHealthScore(r) ==
  LET s0 == [score |-> 100 * Scale, factors |-> <<>>]
      s1 == std(s0, r, "vibrationRms")
      s2 == std(s1, r, "motorSurfaceTemp")
      s3 == std(s2, r, "bearingTemp")
      s4 == std(s3, r, "motorCurrent")
      s5 == std(s4, r, "powerFactor")
      s6 == voltageFactor(s5, r["gridVoltage"])
      s7 == std(s6, r, "dustDensity")
      s8 == frequencyFactor(s7, r["gridFrequency"])
      score == Clamp(s8.score)
  IN [score |-> MathRound(score),
      category |-> Category(score),
      factors |-> SortFactors(s8.factors)]

----------------------------------------------------------------------------
(* Sensor snapshots.  Every field is absent or holds a number; one field   *)
(* of a snapshot may also hold null or NaN, as JSON and arithmetic upstream *)
(* can deliver them.                                                       *)

Levels == 0..3

(* Distance from the nominal value at which the deviation equals limit. *)
Offset(nominal, limit) == (limit * nominal) \div Scale

(* The two limits of a parameter as sensor values on the worse side. *)
Limits(parameter) ==
  CASE parameter = "gridVoltage" ->
         << nominalVoltage + Offset(nominalVoltage, 10),
            nominalVoltage + Offset(nominalVoltage, 15) >>
    [] parameter = "gridFrequency" ->
         << nominalFrequency + Offset(nominalFrequency, 1),
            nominalFrequency + Offset(nominalFrequency, 2) >>
    [] OTHER -> << thresholds(parameter).warning, thresholds(parameter).critical >>

Worse(parameter) ==
  IF parameter \in StdParams /\ thresholds(parameter).isLower THEN -1 ELSE 1

(* One value per band: absent, on the warning limit, on the critical       *)
(* limit, one grid step beyond the critical limit.                         *)
LevelValue(parameter, i) ==
  CASE i = 0 -> Undefined
    [] i = 1 -> Num(Limits(parameter)[1])
    [] i = 2 -> Num(Limits(parameter)[2])
    [] i = 3 -> Num(Limits(parameter)[2] + Worse(parameter))

LevelSnapshots ==
  { [p \in Params |-> LevelValue(p, m[p])] : m \in [Params -> Levels] }

(* The value a deviation check measures from (0 for the other checks). *)
Nominal(parameter) ==
  CASE parameter = "gridVoltage" -> nominalVoltage
    [] parameter = "gridFrequency" -> nominalFrequency
    [] OTHER -> 0

(* The number at the same distance on the other side of the nominal value. *)
Mirror(parameter, n) ==
  IF parameter \in StdParams THEN n ELSE 2 * Nominal(parameter) - n

(* The numbers around both limits (on both sides of the nominal value for  *)
(* the deviation checks) and the nominal value itself.                     *)
ProbeNumbers(parameter) ==
  LET near == { Limits(parameter)[j] + d : j \in 1..2, d \in -Spread..Spread }
  IN near \cup { Mirror(parameter, n) : n \in near } \cup { Nominal(parameter) }

ProbeValues(parameter) ==
  { Num(n) : n \in ProbeNumbers(parameter) } \cup {Null, NaN}

UniformSnapshots ==
  { [p \in Params |-> LevelValue(p, i)] : i \in Levels }

ProbeSnapshots ==
  UNION { { [b EXCEPT ![p] = x] : b \in UniformSnapshots, x \in ProbeValues(p) }
          : p \in Params }

(* A snapshot with every field present and away from the limits. *)
TypicalSnapshot ==
  [ vibrationRms |-> Num(500), motorSurfaceTemp |-> Num(9000),
    bearingTemp |-> Num(5000), motorCurrent |-> Num(300),
    powerFactor |-> Num(95), gridVoltage |-> Num(22000),
    gridFrequency |-> Num(5000), dustDensity |-> Num(0) ]

Snapshots == LevelSnapshots \cup ProbeSnapshots \cup {TypicalSnapshot}

NoResult == [score |-> 0, category |-> "none", factors |-> <<>>]

(* conclusion = null *)
NullConclusion == [isNull |-> TRUE, percent |-> 0, label |-> ""]

(* answers = {} *)
NoAnswers == [sid \in 1..10 |-> "undefined"]

(* The AI Center page as mounted, with an empty rule catalog. *)
ExpertIdle ==
  /\ rules = <<>>
  /\ answers = NoAnswers
  /\ results = <<>>
  /\ conclusion = NullConclusion
  /\ phase = "editing"

(* process.env.ML_SERVICE_URL: undefined when unset, else a string. *)
Unset == [k |-> "undefined", s |-> ""]
Str(s) == [k |-> "string", s |-> s]

(* mlPrediction = null *)
NullPrediction == [shape |-> "null"]

NoBody ==
  [k |-> "none", sensorData |-> [p \in {} |-> Undefined], vibrationReadings |-> <<>>]

NoResponse ==
  [status |-> 0, success |-> FALSE, healthScore |-> NoResult,
   mlPrediction |-> NullPrediction, mlServiceStatus |-> "none",
   mlServiceError |-> "none"]

(* predictionResult = null *)
NullResult == [isNull |-> TRUE]

(* latestSensorData = null *)
NullData == [isNull |-> TRUE]

(* The prediction state of the page as mounted, before any event. *)
PageIdle ==
  /\ predictionResult = NullResult
  /\ isLoadingPrediction = FALSE
  /\ vibrationHistory = <<>>
  /\ latestSensorData = NullData
  /\ requests = <<>>
  /\ events = <<>>

(* No request to POST /api/ml/predict is in progress, no invocation of     *)
(* calculateHealthScore is under way, and the page shows no prediction.    *)
ApiIdle ==
  /\ ML_SERVICE_URL = Unset
  /\ body = NoBody
  /\ mlOutcome = "not called"
  /\ response = NoResponse
  /\ apiPc = "idle"
  /\ mlCalls = <<>>
  /\ calls = <<>>
  /\ PageIdle

Init ==
  /\ reading \in Snapshots
  /\ result = NoResult
  /\ pc = "idle"
  /\ ExpertIdle
  /\ ApiIdle

(* A caller invokes calculateHealthScore on the snapshot it holds. *)
Calculate ==
  /\ pc = "idle"
  /\ result' = calculateHealthScore(reading)
  /\ pc' = "done"
  /\ UNCHANGED reading
  /\ UNCHANGED expertVars
  /\ UNCHANGED apiVars
  /\ UNCHANGED <<callVars, pageVars>>

Next == Calculate

Spec == Init /\ [][Next]_vars

TypeOK ==
  /\ pc \in {"idle", "done"}
  /\ result.category \in {"none", "Healthy", "At Risk", "Critical"}

----------------------------------------------------------------------------
(* Properties of calculateHealthScore.                                     *)

Done == pc = "done"

IsNumber(value) == value.k = "num"

RECURSIVE SumPenalty(_)
SumPenalty(factors) ==
  IF factors = <<>> THEN 0 ELSE Head(factors).penalty + SumPenalty(Tail(factors))

(* The entries of a factors list that belong to one parameter. *)
EntriesOf(factors, parameter) ==
  { i \in 1..Len(factors) : factors[i].parameter = parameter }

(* The points a result deducts for one parameter. *)
Deducted(res, parameter) ==
  SumPenalty(SelectSeq(res.factors, LAMBDA f : f.parameter = parameter))

AllAbsent == [p \in Params |-> Undefined]

HigherIsWorse ==
  {"vibrationRms", "motorSurfaceTemp", "bearingTemp", "motorCurrent", "dustDensity"}

(* The numbers a field is compared on when one field of a snapshot moves. *)
Numbers(parameter) ==
  ProbeNumbers(parameter) \cup
    { LevelValue(parameter, i).v : i \in Levels \ {0} }

(* C1: the returned score is an integer between 0 and 100. *)
C1_ScoreBounds ==
  Done => /\ result.score % Scale = 0
          /\ 0 <= result.score
          /\ result.score <= 100 * Scale

(* C1 witness: the deductions exceed 100 points and the score is 0. *)
C1_Witness ==
  Done /\ SumPenalty(result.factors) > 100 * Scale /\ result.score = 0

(* C2: the score is 100 minus the sum of the penalties of the returned     *)
(* factors, clamped to 0..100 and rounded to the nearest integer (halves   *)
(* upwards).                                                               *)
C2_ScoreIsClampedSum ==
  Done =>
    LET raw == 100 * Scale - SumPenalty(result.factors)
        clamped == IF raw < 0 THEN 0 ELSE IF raw > 100 * Scale THEN 100 * Scale ELSE raw
    IN /\ result.score % Scale = 0
       /\ 2 * (result.score - clamped) <= Scale
       /\ 2 * (clamped - result.score) < Scale

(* C2 witness: several factors whose penalties sum to a half point. *)
C2_Witness ==
  /\ Done
  /\ Len(result.factors) >= 3
  /\ SumPenalty(result.factors) % Scale # 0
  /\ result.score > 0

(* C3: the returned category is the one the returned (rounded) score       *)
(* determines: Healthy from 80, At Risk from 60 to below 80, else Critical. *)
C3_CategoryConsistent ==
  Done =>
    /\ (result.score >= 80 * Scale) <=> (result.category = "Healthy")
    /\ (result.score >= 60 * Scale /\ result.score < 80 * Scale)
         <=> (result.category = "At Risk")
    /\ (result.score < 60 * Scale) <=> (result.category = "Critical")

(* C3 witness: the total 87.5 is returned as 88, Healthy. *)
C3_Witness ==
  /\ Done
  /\ SumPenalty(result.factors) = 1250
  /\ result.score = 88 * Scale
  /\ result.category = "Healthy"

(* C4: a standard parameter deducts its full maxPenalty beyond the         *)
(* critical limit, half of it beyond the warning limit up to the critical  *)
(* limit, and nothing up to the warning limit; powerFactor deducts 15      *)
(* below 0.70, 7.5 from 0.70 to below 0.85 and nothing from 0.85.          *)
C4_StandardBands ==
  Done =>
    \A p \in StdParams :
      IsNumber(reading[p]) =>
        LET n == reading[p].v
            full == CASE p = "vibrationRms" -> 2500
                      [] p = "motorSurfaceTemp" -> 2000
                      [] p = "bearingTemp" -> 2000
                      [] p = "motorCurrent" -> 1500
                      [] p = "powerFactor" -> 1500
                      [] p = "dustDensity" -> 1000
            expected ==
              IF p = "powerFactor"
              THEN IF n < 70 THEN full ELSE IF n < 85 THEN full \div 2 ELSE 0
              ELSE IF n > thresholds(p).critical THEN full
                   ELSE IF n > thresholds(p).warning THEN full \div 2
                   ELSE 0
        IN Deducted(result, p) = expected

(* C4 witness: vibrationRms exactly on its critical limit deducts 12.5 and *)
(* powerFactor exactly 0.70 deducts 7.5.                                   *)
C4_Witness ==
  /\ Done
  /\ reading["vibrationRms"] = Num(450)
  /\ Deducted(result, "vibrationRms") = 1250
  /\ reading["powerFactor"] = Num(70)
  /\ Deducted(result, "powerFactor") = 750

(* C5: the snapshot with every field absent scores 100, Healthy, with no   *)
(* factors.                                                                *)
C5_AllAbsentIsHealthy ==
  (Done /\ reading = AllAbsent) =>
    result = [score |-> 100 * Scale, category |-> "Healthy", factors |-> <<>>]

(* C5 witness: calculateHealthScore has run on the all-absent snapshot. *)
C5_Witness == Done /\ reading = AllAbsent /\ result.category # "none"

(* C6: a field that is undefined, null or NaN deducts nothing, adds no     *)
(* factor, and gives the result the snapshot without the field gives.      *)
C6_NonNumericSkipped ==
  Done =>
    \A p \in Params :
      ~IsNumber(reading[p]) =>
        /\ EntriesOf(result.factors, p) = {}
        /\ result = calculateHealthScore([reading EXCEPT ![p] = Undefined])

(* C7: raising one higher-is-worse parameter never raises the score, and   *)
(* raising powerFactor never lowers it.                                    *)
C7_Monotone ==
  Done =>
    \A p \in StdParams :
      IsNumber(reading[p]) =>
        \A n \in Numbers(p) :
          n > reading[p].v =>
            LET other == calculateHealthScore([reading EXCEPT ![p] = Num(n)])
            IN IF p \in HigherIsWorse
               THEN other.score <= result.score
               ELSE other.score >= result.score

(* C7 witness: a larger motorCurrent gives a strictly smaller score and a  *)
(* larger powerFactor a strictly larger one.                               *)
C7_Witness ==
  /\ Done
  /\ IsNumber(reading["motorCurrent"])
  /\ IsNumber(reading["powerFactor"])
  /\ \E n \in Numbers("motorCurrent") :
       /\ n > reading["motorCurrent"].v
       /\ calculateHealthScore([reading EXCEPT !["motorCurrent"] = Num(n)]).score
            < result.score
  /\ \E n \in Numbers("powerFactor") :
       /\ n > reading["powerFactor"].v
       /\ calculateHealthScore([reading EXCEPT !["powerFactor"] = Num(n)]).score
            > result.score

(* C8: a numeric gridVoltage more than 15% off 220 V deducts 10 points as  *)
(* a critical factor, more than 10% and up to 15% off deducts 5 as a       *)
(* warning factor, up to 10% off deducts nothing and adds no factor; the   *)
(* deduction is the same at equal distances below and above 220 V.         *)
C8_VoltageBands ==
  (Done /\ IsNumber(reading["gridVoltage"])) =>
      LET n == reading["gridVoltage"].v
          distance == IF n < 22000 THEN 22000 - n ELSE n - 22000
          entries == EntriesOf(result.factors, "gridVoltage")
          mirrored == calculateHealthScore(
                        [reading EXCEPT !["gridVoltage"] = Num(44000 - n)])
      IN /\ Cardinality(entries) <= 1
         /\ distance > 3300 =>
              /\ Deducted(result, "gridVoltage") = 1000
              /\ \A i \in entries : result.factors[i].status = "critical"
         /\ (distance > 2200 /\ distance <= 3300) =>
              /\ Deducted(result, "gridVoltage") = 500
              /\ \A i \in entries : result.factors[i].status = "warning"
         /\ distance <= 2200 => entries = {}
         /\ Deducted(mirrored, "gridVoltage") = Deducted(result, "gridVoltage")

(* C8 witness: 198 V, exactly 10% below nominal, is not penalized. *)
C8_Witness ==
  /\ Done
  /\ reading["gridVoltage"] = Num(19800)
  /\ EntriesOf(result.factors, "gridVoltage") = {}
  /\ result.factors # <<>>

(* C9: a numeric gridFrequency more than 2% off 50 Hz deducts 5 points as  *)
(* a critical factor, more than 1% and up to 2% off deducts 2 as a warning *)
(* factor, up to 1% off deducts nothing and adds no factor.                *)
C9_FrequencyBands ==
  (Done /\ IsNumber(reading["gridFrequency"])) =>
      LET n == reading["gridFrequency"].v
          distance == IF n < 5000 THEN 5000 - n ELSE n - 5000
          entries == EntriesOf(result.factors, "gridFrequency")
      IN /\ Cardinality(entries) <= 1
         /\ distance > 100 =>
              /\ Deducted(result, "gridFrequency") = 500
              /\ \A i \in entries : result.factors[i].status = "critical"
         /\ (distance > 50 /\ distance <= 100) =>
              /\ Deducted(result, "gridFrequency") = 200
              /\ \A i \in entries : result.factors[i].status = "warning"
         /\ distance <= 50 => entries = {}

(* C9 witness: 49 Hz, exactly 2% below nominal, deducts the warning 2. *)
C9_Witness ==
  /\ Done
  /\ reading["gridFrequency"] = Num(4900)
  /\ Deducted(result, "gridFrequency") = 200

(* The numbers of a parameter that lie beyond its warning limit. *)
Penalized(parameter, n) ==
  CASE parameter = "gridVoltage" -> n < 19800 \/ n > 24200
    [] parameter = "gridFrequency" -> n < 4950 \/ n > 5050
    [] parameter = "powerFactor" -> n < thresholds(parameter).warning
    [] OTHER -> n > thresholds(parameter).warning

(* Position of a parameter in the evaluation order. *)
EvalIndex(parameter) ==
  CHOOSE i \in 1..Len(EvalOrder) : EvalOrder[i] = parameter

(* C10: the factors list has at most one entry per parameter, every entry  *)
(* has a positive penalty, a present numeric parameter has an entry        *)
(* exactly when its band deducts points, penalties descend, and entries of *)
(* equal penalty stand in evaluation order.                                *)
C10_FactorsSorted ==
  Done =>
    LET factors == result.factors
    IN /\ \A p \in Params : Cardinality(EntriesOf(factors, p)) <= 1
       /\ \A i \in 1..Len(factors) :
            /\ factors[i].parameter \in Params
            /\ factors[i].penalty > 0
       /\ \A p \in Params :
            reading[p].k \in {"num", "undefined"} =>
              ((EntriesOf(factors, p) # {}) <=>
                 (IsNumber(reading[p]) /\ Penalized(p, reading[p].v)))
       /\ \A i \in 1..Len(factors), j \in 1..Len(factors) :
            i < j =>
              /\ factors[i].penalty >= factors[j].penalty
              /\ factors[i].penalty = factors[j].penalty =>
                   EvalIndex(factors[i].parameter) < EvalIndex(factors[j].parameter)

(* C10 witness: motorSurfaceTemp and bearingTemp tie at 20 points behind   *)
(* vibrationRms, and powerFactor and motorCurrent tie behind them.         *)
C10_Witness ==
  /\ Done
  /\ Len(result.factors) >= 5
  /\ result.factors[1].parameter = "vibrationRms"
  /\ result.factors[2].parameter = "motorSurfaceTemp"
  /\ result.factors[3].parameter = "bearingTemp"
  /\ result.factors[2].penalty = result.factors[3].penalty
  /\ result.factors[4].parameter = "motorCurrent"
  /\ result.factors[5].parameter = "powerFactor"
  /\ result.factors[4].penalty = result.factors[5].penalty

(* C11: the snapshot vibrationRms 5.0, motorSurfaceTemp 90, bearingTemp 50, *)
(* motorCurrent 3, powerFactor 0.95, gridVoltage 220, gridFrequency 50,    *)
(* dustDensity 0 scores 55, Critical, with exactly the factors vibrationRms *)
(* (25) and motorSurfaceTemp (20), in that order.                          *)
C11_Example ==
  (Done /\ reading = TypicalSnapshot) =>
    /\ result.score = 55 * Scale
    /\ result.category = "Critical"
    /\ Len(result.factors) = 2
    /\ result.factors[1].parameter = "vibrationRms"
    /\ result.factors[1].penalty = 25 * Scale
    /\ result.factors[2].parameter = "motorSurfaceTemp"
    /\ result.factors[2].penalty = 20 * Scale

(* C11 witness: calculateHealthScore has run on that snapshot. *)
C11_Witness ==
  Done /\ reading = TypicalSnapshot /\ result.category = "Critical"

----------------------------------------------------------------------------
(* The certainty-factor expert system of the AI Center page.               *)
(*                                                                         *)
(* A certainty factor c is the integer c * Scale; a product of two of them *)
(* is a fraction over Scale * Scale.  The expert factors of the catalog    *)
(* have one decimal and the user factors are 0, 0.5 and 1, so every        *)
(* product has at most two decimals and is the double the code computes.   *)

(* Rules of the short modelled catalogs, symptoms a rule refers to, and    *)
(* results handed to calculateConclusion on its own.                       *)
MaxRules == 1
NumSymptoms == 2
MaxFired == 7

(* The symptom catalog. *)
symptoms ==
  << [id |-> 1, cfExpert |-> 100], [id |-> 2, cfExpert |-> 60],
     [id |-> 3, cfExpert |-> 80],  [id |-> 4, cfExpert |-> 70],
     [id |-> 5, cfExpert |-> 100], [id |-> 6, cfExpert |-> 90],
     [id |-> 7, cfExpert |-> 80],  [id |-> 8, cfExpert |-> 100],
     [id |-> 9, cfExpert |-> 90],  [id |-> 10, cfExpert |-> 100] >>

(* fuzzyLevelToValue: the numeric certainty of a user answer. *)
fuzzyLevelToValue(userAnswer) ==
  CASE userAnswer = "No" -> 0
    [] userAnswer = "Sometimes" -> 50
    [] userAnswer = "Yes" -> 100

UserAnswers == {"No", "Sometimes", "Yes"}

(* The rule catalogs: up to MaxRules rules, each over some of the first    *)
(* NumSymptoms symptoms; id, damage and solution are those of the position. *)
RuleShapes ==
  [ symptoms : SUBSET (1..NumSymptoms) \ {{}},
    operator : {"AND", "OR"},
    level : {"A", "B", "C"} ]

Rule(i, shape) ==
  [ id |-> i, symptoms |-> shape.symptoms, operator |-> shape.operator,
    level |-> shape.level, damage |-> i, solution |-> i ]

RECURSIVE ShapeList(_)
ShapeList(shapes) ==
  IF shapes = {} THEN <<>>
  ELSE LET shape == CHOOSE x \in shapes : TRUE
       IN <<shape>> \o ShapeList(shapes \ {shape})

(* The catalog that holds one rule of every shape. *)
FullCatalog ==
  LET list == ShapeList(RuleShapes)
  IN [i \in 1..Len(list) |-> Rule(i, list[i])]

Catalogs ==
  UNION { { [i \in 1..n |-> Rule(i, shapes[i])] : shapes \in [1..n -> RuleShapes] }
          : n \in 0..MaxRules }
    \cup {FullCatalog}

levelScore_Thirds(level) ==
  CASE level = "A" -> 33
    [] level = "B" -> 66
    [] level = "C" -> 100

levelScore(level) ==
  CASE level = "A" -> 40
    [] level = "B" -> 70
    [] level = "C" -> 100

(* symptoms.find((s) => s.id === sid)?.cfExpert *)
expertCF(sid) ==
  LET found == { i \in 1..Len(symptoms) : symptoms[i].id = sid }
  IN IF found = {} THEN Undefined
     ELSE Num(symptoms[CHOOSE i \in found : \A j \in found : i <= j].cfExpert)

(* Math.max(...values) and Math.min(...values); of no value they are       *)
(* -Infinity and +Infinity, which lie beyond every certainty factor.       *)
Infinity == Scale * Scale * Scale
MaxOf(values) ==
  IF values = {} THEN -Infinity
  ELSE CHOOSE x \in values : \A y \in values : y <= x
MinOf(values) ==
  IF values = {} THEN Infinity
  ELSE CHOOSE x \in values : \A y \in values : x <= y

(* Number((num / den).toFixed(digits)), in units of 1 / Scale. *)
RECURSIVE Pow10(_)
Pow10(digits) == IF digits = 0 THEN 1 ELSE 10 * Pow10(digits - 1)
ToFixed(num, den, digits) ==
  ((2 * num * Pow10(digits) + den) \div (2 * den)) * (Scale \div Pow10(digits))

(* answers[sid]: undefined for a key the object does not have. *)
answerOf(ans, sid) == IF sid \in DOMAIN ans THEN ans[sid] ELSE "undefined"

(* cfValues that counts an unanswered symptom as certainty 0. *)
cfValues_UnansweredAsZero(rule, ans) ==
  { (IF answerOf(ans, sid) = "undefined" THEN 0
     ELSE fuzzyLevelToValue(answerOf(ans, sid))) * expertCF(sid).v :
      sid \in { x \in rule.symptoms : expertCF(x).k # "undefined" } }

(* cfValues of one rule: userCF * expertCF of its answered symptoms. *)
cfValues(rule, ans) ==
  { fuzzyLevelToValue(answerOf(ans, sid)) * expertCF(sid).v :
      sid \in { x \in rule.symptoms :
                  answerOf(ans, x) # "undefined" /\ expertCF(x).k # "undefined" } }

(* evaluateRule that fires on cfRule >= 0. *)
evaluateRule_FiresOnZero(rule, ans) ==
  LET values == cfValues(rule, ans)
      cfRule == IF rule.operator = "OR" THEN MaxOf(values) ELSE MinOf(values)
  IN IF values = {} THEN <<>>
     ELSE IF cfRule >= 0
     THEN << [ id |-> rule.id, level |-> rule.level, damage |-> rule.damage,
               solution |-> rule.solution,
               cfRule |-> ToFixed(cfRule, Scale * Scale, 2) ] >>
     ELSE <<>>

(* evaluateRule without the cfValues.length === 0 return. *)
evaluateRule_NoLengthCheck(rule, ans) ==
  LET values == cfValues(rule, ans)
      cfRule == IF rule.operator = "OR" THEN MaxOf(values) ELSE MinOf(values)
  IN IF cfRule > 0
     THEN << [ id |-> rule.id, level |-> rule.level, damage |-> rule.damage,
               solution |-> rule.solution,
               cfRule |-> ToFixed(cfRule, Scale * Scale, 2) ] >>
     ELSE <<>>

(* evaluateRule that rounds with toFixed(0). *)
evaluateRule_NoDecimals(rule, ans) ==
  LET values == cfValues(rule, ans)
      cfRule == IF rule.operator = "OR" THEN MaxOf(values) ELSE MinOf(values)
  IN IF values = {} THEN <<>>
     ELSE IF cfRule > 0
     THEN << [ id |-> rule.id, level |-> rule.level, damage |-> rule.damage,
               solution |-> rule.solution,
               cfRule |-> ToFixed(cfRule, Scale * Scale, 0) ] >>
     ELSE <<>>

(* The callback of rules.forEach: what one rule pushes to output. *)
evaluateRule(rule, ans) ==
  LET values == cfValues(rule, ans)
      cfRule == IF rule.operator = "OR" THEN MaxOf(values) ELSE MinOf(values)
  IN IF values = {} THEN <<>>
     ELSE IF cfRule > 0
     THEN << [ id |-> rule.id, level |-> rule.level, damage |-> rule.damage,
               solution |-> rule.solution,
               cfRule |-> ToFixed(cfRule, Scale * Scale, 2) ] >>
     ELSE <<>>

(* diagnose that puts each result in front of the earlier ones. *)
RECURSIVE diagnose_Unshift(_, _)
diagnose_Unshift(catalog, ans) ==
  IF catalog = <<>> THEN <<>>
  ELSE evaluateRule(catalog[Len(catalog)], ans)
         \o diagnose_Unshift(SubSeq(catalog, 1, Len(catalog) - 1), ans)

(* The output array of runDiagnosis. *)
RECURSIVE diagnose(_, _)
diagnose(catalog, ans) ==
  IF catalog = <<>> THEN <<>>
  ELSE diagnose(SubSeq(catalog, 1, Len(catalog) - 1), ans)
         \o evaluateRule(catalog[Len(catalog)], ans)

RECURSIVE totalScore(_)
totalScore(data) ==
  IF data = <<>> THEN 0 ELSE levelScore(Head(data).level) + totalScore(Tail(data))

(* calculateConclusion that returns on no result without setConclusion. *)
calculateConclusion_KeepsOld(prev, data) ==
  IF Len(data) = 0 THEN prev
  ELSE LET num == totalScore(data) * 100
           den == Len(data) * 100
           label == IF num <= 40 * den THEN "Minor"
                    ELSE IF num <= 70 * den THEN "Moderate"
                    ELSE "Severe"
       IN [isNull |-> FALSE, percent |-> ToFixed(num, den, 1), label |-> label]

(* calculateConclusion with strict comparisons at 40 and 70. *)
calculateConclusion_Strict(prev, data) ==
  IF Len(data) = 0 THEN NullConclusion
  ELSE LET num == totalScore(data) * 100
           den == Len(data) * 100
           label == IF num < 40 * den THEN "Minor"
                    ELSE IF num < 70 * den THEN "Moderate"
                    ELSE "Severe"
       IN [isNull |-> FALSE, percent |-> ToFixed(num, den, 1), label |-> label]

(* calculateConclusion: the conclusion state it leaves, prev being the one *)
(* it finds.  percent is totalScore / (data.length * 100) * 100, which in  *)
(* doubles has the label and the one-decimal rounding of the exact         *)
(* quotient for fewer than 8 results.                                      *)
calculateConclusion(prev, data) ==
  IF Len(data) = 0 THEN NullConclusion
  ELSE LET num == totalScore(data) * 100
           den == Len(data) * 100
           label == IF num <= 40 * den THEN "Minor"
                    ELSE IF num <= 70 * den THEN "Moderate"
                    ELSE "Severe"
       IN [isNull |-> FALSE, percent |-> ToFixed(num, den, 1), label |-> label]

ExpertInit ==
  /\ reading = [p \in Params |-> Undefined]
  /\ result = NoResult
  /\ pc = "idle"
  /\ rules \in Catalogs
  /\ answers = NoAnswers
  /\ results = <<>>
  /\ conclusion = NullConclusion
  /\ phase = "editing"
  /\ ApiIdle

(* The page is there: its module and the catalogs it imports have loaded. *)
Mounted == phase \in {"editing", "diagnosed"}

(* The user picks an option of a symptom: setAnswers. *)
SelectAnswer(sid, option) ==
  /\ Mounted
  /\ answers' = [answers EXCEPT ![sid] = option]
  /\ phase' = "editing"
  /\ UNCHANGED <<rules, results, conclusion>>
  /\ UNCHANGED healthVars
  /\ UNCHANGED apiVars
  /\ UNCHANGED <<callVars, pageVars>>

(* The user clicks Run Diagnosis: setResults and setConclusion. *)
runDiagnosis ==
  /\ Mounted
  /\ LET output == diagnose(rules, answers)
     IN /\ results' = output
        /\ conclusion' = calculateConclusion(conclusion, output)
  /\ phase' = "diagnosed"
  /\ UNCHANGED <<rules, answers>>
  /\ UNCHANGED healthVars
  /\ UNCHANGED apiVars
  /\ UNCHANGED <<callVars, pageVars>>

ExpertNext ==
  \/ \E sid \in 1..NumSymptoms, option \in UserAnswers : SelectAnswer(sid, option)
  \/ runDiagnosis

ExpertSpec == ExpertInit /\ [][ExpertNext]_vars

(* Loading the catalogs.  A candidate rule catalog holds no rule or one    *)
(* rule over the first NumSymptoms symptoms and an id that no symptom has. *)
MissingSymptom == Len(symptoms) + 1

SymptomIds == { symptoms[i].id : i \in 1..Len(symptoms) }

CandidateCatalogs ==
  { <<>> } \cup
  { << Rule(1, shape) >> :
      shape \in [ symptoms : SUBSET ((1..NumSymptoms) \cup {MissingSymptom}) \ {{}},
                  operator : {"AND", "OR"},
                  level : {"A", "B", "C"} ] }

validCatalog_Unchecked(catalog) == TRUE

(* The validation at load time: every symptom id of every rule is the id   *)
(* of a symptom.                                                           *)
validCatalog(catalog) ==
  \A i \in 1..Len(catalog) : catalog[i].symptoms \subseteq SymptomIds

CatalogInit ==
  /\ reading = [p \in Params |-> Undefined]
  /\ result = NoResult
  /\ pc = "idle"
  /\ rules \in CandidateCatalogs
  /\ answers = NoAnswers
  /\ results = <<>>
  /\ conclusion = NullConclusion
  /\ phase = "loading"
  /\ ApiIdle

(* Startup: the catalog loads, or loading fails for good. *)
LoadCatalog ==
  /\ phase = "loading"
  /\ phase' = IF validCatalog(rules) THEN "editing" ELSE "rejected"
  /\ UNCHANGED <<rules, answers, results, conclusion>>
  /\ UNCHANGED healthVars
  /\ UNCHANGED apiVars
  /\ UNCHANGED <<callVars, pageVars>>

CatalogNext ==
  \/ LoadCatalog
  \/ \E sid \in 1..NumSymptoms, option \in UserAnswers : SelectAnswer(sid, option)
  \/ runDiagnosis

CatalogSpec == CatalogInit /\ [][CatalogNext]_vars

(* calculateConclusion on its own, on every list of up to MaxFired fired   *)
(* rules.                                                                  *)
FiredLists ==
  UNION { { [i \in 1..n |-> [ id |-> i, level |-> levels[i], damage |-> i,
                               solution |-> i, cfRule |-> Scale ]] :
              levels \in [1..n -> {"A", "B", "C"}] }
          : n \in 0..MaxFired }

ConclusionInit ==
  /\ reading = [p \in Params |-> Undefined]
  /\ result = NoResult
  /\ pc = "idle"
  /\ rules = <<>>
  /\ answers = NoAnswers
  /\ results \in FiredLists
  /\ conclusion = NullConclusion
  /\ phase = "editing"
  /\ ApiIdle

Conclude ==
  /\ phase = "editing"
  /\ conclusion' = calculateConclusion(conclusion, results)
  /\ phase' = "concluded"
  /\ UNCHANGED <<rules, answers, results>>
  /\ UNCHANGED healthVars
  /\ UNCHANGED apiVars
  /\ UNCHANGED <<callVars, pageVars>>

ConclusionNext == Conclude

ConclusionSpec == ConclusionInit /\ [][ConclusionNext]_vars

----------------------------------------------------------------------------
(* Properties of the expert system.                                        *)

Diagnosed == phase = "diagnosed"

(* The symptoms of a rule that have a user answer. *)
AnsweredOf(rule) == { sid \in rule.symptoms : answers[sid] # "undefined" }

(* fuzzy(answer) x expertCF of an answered symptom, over Scale * Scale. *)
Evidence(sid) ==
  (CASE answers[sid] = "No" -> 0
     [] answers[sid] = "Sometimes" -> 50
     [] answers[sid] = "Yes" -> 100) * symptoms[sid].cfExpert

(* The maximum (OR) or minimum (AND) of the evidence of a rule with an     *)
(* answered symptom.                                                       *)
CombinedCF(rule) ==
  LET evidence == { Evidence(sid) : sid \in AnsweredOf(rule) }
  IN IF rule.operator = "OR"
     THEN CHOOSE x \in evidence : \A y \in evidence : y <= x
     ELSE CHOOSE x \in evidence : \A y \in evidence : x <= y

(* The entries of results that rule number j produced. *)
ResultsOf(j) == { i \in 1..Len(results) : results[i].id = j }

(* C12: the certainty factor of a fired rule is the maximum (OR) or the    *)
(* minimum (AND) of fuzzy(answer) x expertCF over its answered symptoms    *)
(* only, with No 0.0, Sometimes 0.5 and Yes 1.0; a rule whose answered     *)
(* symptoms combine to more than 0 has that result even when other         *)
(* symptoms of it are unanswered.                                          *)
C12_CombinationOverAnswered ==
  Diagnosed =>
    \A j \in 1..Len(rules) :
      /\ \A i \in ResultsOf(j) :
           /\ AnsweredOf(rules[j]) # {}
           /\ 2 * (results[i].cfRule * Scale - CombinedCF(rules[j])) <= Scale
           /\ 2 * (CombinedCF(rules[j]) - results[i].cfRule * Scale) < Scale
      /\ (AnsweredOf(rules[j]) # {} /\ CombinedCF(rules[j]) > 0) => ResultsOf(j) # {}

(* C12 witness: an AND rule over symptoms 1 and 2 with only symptom 1      *)
(* answered (Yes) has fired with certainty 1.0.                            *)
C12_Witness ==
  /\ Diagnosed
  /\ answers[1] = "Yes"
  /\ answers[2] = "undefined"
  /\ \E j \in 1..Len(rules) :
       /\ rules[j].operator = "AND"
       /\ rules[j].symptoms = {1, 2}
       /\ \E i \in ResultsOf(j) : results[i].cfRule = Scale

(* C13: a rule has a result exactly when one of its symptoms is answered   *)
(* and the combined certainty factor is greater than 0.                    *)
C13_FiresIffPositive ==
  Diagnosed =>
    \A j \in 1..Len(rules) :
      (ResultsOf(j) # {}) <=>
        (AnsweredOf(rules[j]) # {} /\ CombinedCF(rules[j]) > 0)

(* C13 witness: with symptom 1 Yes and symptom 2 No the AND rule over both *)
(* has no result and the OR rule over both has fired with 1.0, and the OR  *)
(* rule over symptom 2 alone has no result.                                *)
C13_Witness ==
  /\ Diagnosed
  /\ answers[1] = "Yes"
  /\ answers[2] = "No"
  /\ \E j \in 1..Len(rules) :
       /\ rules[j].operator = "AND" /\ rules[j].symptoms = {1, 2}
       /\ ResultsOf(j) = {}
  /\ \E j \in 1..Len(rules) :
       /\ rules[j].operator = "OR" /\ rules[j].symptoms = {1, 2}
       /\ \E i \in ResultsOf(j) : results[i].cfRule = Scale
  /\ \E j \in 1..Len(rules) :
       /\ rules[j].operator = "OR" /\ rules[j].symptoms = {2}
       /\ ResultsOf(j) = {}

(* C14: a rule with no answered symptom has no result, and a diagnosis on  *)
(* the empty answer mapping gives no results and a null conclusion.        *)
C14_NoAnswerNoResult ==
  Diagnosed =>
    /\ \A j \in 1..Len(rules) : AnsweredOf(rules[j]) = {} => ResultsOf(j) = {}
    /\ answers = NoAnswers => (results = <<>> /\ conclusion.isNull)

(* C14 witness: a diagnosis has run on a catalog with rules and no answer. *)
C14_Witness ==
  Diagnosed /\ answers = NoAnswers /\ Len(rules) > 1 /\ results = <<>>

(* C15: every result has a certainty factor above 0 and at most 1. *)
C15_CertaintyRange ==
  Diagnosed =>
    \A i \in 1..Len(results) :
      results[i].cfRule > 0 /\ results[i].cfRule <= Scale

(* C15 witness: a rule has fired with the smallest product of the catalog, *)
(* Sometimes on the symptom of expert factor 0.6, and one with 1.0.        *)
C15_Witness ==
  /\ Diagnosed
  /\ \E i \in 1..Len(results) : results[i].cfRule = 30
  /\ \E i \in 1..Len(results) : results[i].cfRule = Scale

(* C16: for fired rules the percent is the sum of the level weights (40,   *)
(* 70, 100) over count x 100, times 100, rounded to one decimal, and the   *)
(* label is Minor up to 40, Moderate above 40 up to 70, Severe above 70.   *)
C16_ConclusionFormula ==
  (phase = "concluded" /\ results # <<>>) =>
    LET weight(i) == CASE results[i].level = "A" -> 40
                       [] results[i].level = "B" -> 70
                       [] results[i].level = "C" -> 100
        RECURSIVE Sum(_)
        Sum(n) == IF n = 0 THEN 0 ELSE weight(n) + Sum(n - 1)
        total == Sum(Len(results))
        count == Len(results)
    IN /\ ~conclusion.isNull
       /\ conclusion.percent % (Scale \div 10) = 0
       /\ 2 * (conclusion.percent * count - total * Scale) <= 10 * count
       /\ 2 * (total * Scale - conclusion.percent * count) < 10 * count
       /\ conclusion.label =
            (IF total <= 40 * count THEN "Minor"
             ELSE IF total <= 70 * count THEN "Moderate"
             ELSE "Severe")

(* C16 witnesses: a Minor and a Severe rule give 70.0, Moderate. *)
C16_Witness ==
  /\ phase = "concluded"
  /\ Len(results) = 2
  /\ results[1].level = "A"
  /\ results[2].level = "C"
  /\ conclusion.percent = 70 * Scale
  /\ conclusion.label = "Moderate"

(* C17: the conclusion is null exactly when the results list is empty. *)
C17_ConclusionIffResults ==
  conclusion.isNull <=> (results = <<>>)

(* C17 witness: a diagnosis that fired no rule on answered symptoms left   *)
(* no conclusion.                                                          *)
C17_Witness ==
  /\ Diagnosed
  /\ Len(rules) > 1
  /\ answers[1] = "No"
  /\ answers[2] = "No"
  /\ results = <<>>
  /\ conclusion.isNull

----------------------------------------------------------------------------
(* POST /api/ml/predict.  Probabilities are on the fixed-point grid;       *)
(* minutes, hours and counts are plain integers.  The timestamps of the    *)
(* response are left out.                                                  *)

(* The sensorData fields the handler reads (power is passed on to          *)
(* calculateHealthScore, which never reads it).                            *)
SensorFields == Params \cup {"vibration_peak_g"}

(* The limits of the bands of the synthetic prediction, 0.2 and 0.5. *)
SyntheticLimits == <<20, 50>>

(* Vibration values around the limits of the synthetic prediction and of   *)
(* the health score, a negative one, and the non-numbers JSON can carry.   *)
VibrationValues ==
  { Num(SyntheticLimits[j] + d) : j \in 1..2, d \in -Spread..Spread }
    \cup { Num(n) : n \in ProbeNumbers("vibrationRms") }
    \cup { Num(-100), Undefined, Null }

(* The fields other than the two vibration values: all absent or null (a   *)
(* body without sensorData reads the same as one with every field absent), *)
(* or those of the typical snapshot.                                       *)
OtherFields ==
  { AllAbsent, TypicalSnapshot, [AllAbsent EXCEPT !["bearingTemp"] = Null] }

SensorDatas ==
  { [f \in SensorFields |->
       IF f = "vibration_peak_g" THEN peak
       ELSE IF f = "vibrationRms" THEN rms
       ELSE o[f]] :
    o \in OtherFields, rms \in VibrationValues, peak \in VibrationValues }

(* request.json() rejects. *)
Unparseable ==
  [k |-> "unparseable", sensorData |-> [p \in {} |-> Undefined],
   vibrationReadings |-> <<>>]

(* The vibrationReadings of a body: absent (read as no reading) or a       *)
(* sequence of readings.                                                   *)
VibrationReadings == { <<>>, << [vibration_rms |-> Num(300)], [vibration_rms |-> Num(310)] >> }

Bodies ==
  { [k |-> "object", sensorData |-> sd, vibrationReadings |-> vr] :
      sd \in SensorDatas, vr \in VibrationReadings }
    \cup {Unparseable}

Urls ==
  { Unset, Str(""), Str("http://localhost:8000"), Str("http://127.0.0.1:8000"),
    Str("https://ml.example.com"), Str("ml-service") }

(* new URL(url).hostname; "TypeError" when the constructor throws. *)
hostname(url) ==
  CASE url = "http://localhost:8000" -> "localhost"
    [] url = "http://127.0.0.1:8000" -> "127.0.0.1"
    [] url = "https://ml.example.com" -> "ml.example.com"
    [] OTHER -> "TypeError"

isLocalhostUrl(url) ==
  IF hostname(url) = "TypeError" THEN FALSE
  ELSE hostname(url) = "localhost" \/ hostname(url) = "127.0.0.1"

canCallMlService(url) ==
  url.k = "string" /\ url.s # "" /\ ~isLocalhostUrl(url.s)

(* The values JavaScript takes as true: a number other than 0 and NaN. *)
Truthy(value) == value.k = "num" /\ value.v # 0

(* a || b *)
OrElse(a, b) == IF Truthy(a) THEN a ELSE b

vibrationValue_RmsOnly(sensorData) ==
  OrElse(sensorData["vibrationRms"], Num(0))

(* sensorData?.vibration_peak_g || sensorData?.vibrationRms || 0 *)
vibrationValue(sensorData) ==
  OrElse(OrElse(sensorData["vibration_peak_g"], sensorData["vibrationRms"]), Num(0))

(* The argument of calculateHealthScore. *)
healthInput(sensorData) ==
  [p \in Params |->
     IF p = "vibrationRms" THEN vibrationValue(sensorData) ELSE sensorData[p]]

readings_AnyVibration(sensorData) ==
  IF Truthy(vibrationValue(sensorData))
  THEN << [vibration_rms |-> vibrationValue(sensorData)] >>
  ELSE << >>

(* const readings: one reading when vibration_peak_g is truthy. *)
readings(sensorData) ==
  IF Truthy(sensorData["vibration_peak_g"])
  THEN << [vibration_rms |-> sensorData["vibration_peak_g"]] >>
  ELSE << >>

Prediction(classification, regression, readings_used) ==
  [shape |-> "prediction", classification |-> classification,
   regression |-> regression, readings_used |-> readings_used]

syntheticPrediction_Inclusive(vibration) ==
  LET high == vibration.v >= 50
      mid == vibration.v >= 20
      failureProbability == IF high THEN 85 ELSE IF mid THEN 60 ELSE 15
      willFailSoon == high
      minutesToFailure == IF high THEN 1440 ELSE IF mid THEN 10080 ELSE 43200
  IN Prediction(
       [will_fail_soon |-> willFailSoon, failure_probability |-> failureProbability,
        confidence |-> "High", threshold_minutes |-> 60],
       [minutes_to_failure |-> minutesToFailure,
        hours_to_failure |-> minutesToFailure \div 60,
        status |-> IF willFailSoon THEN "Critical" ELSE "Normal"],
       1)

(* The prediction made up from the vibration value when the ML service is  *)
(* not configured.                                                         *)
syntheticPrediction(vibration) ==
  LET high == GreaterThan(vibration, 50)
      mid == GreaterThan(vibration, 20)
      failureProbability == IF high THEN 85 ELSE IF mid THEN 60 ELSE 15
      willFailSoon == high
      minutesToFailure == IF high THEN 1440 ELSE IF mid THEN 10080 ELSE 43200
  IN Prediction(
       [will_fail_soon |-> willFailSoon, failure_probability |-> failureProbability,
        confidence |-> "High", threshold_minutes |-> 60],
       [minutes_to_failure |-> minutesToFailure,
        hours_to_failure |-> minutesToFailure \div 60,
        status |-> IF willFailSoon THEN "Critical" ELSE "Normal"],
       1)

(* What the ML service does when it is called: fetch rejects (network      *)
(* error, or the 10 s AbortSignal.timeout), it answers with a non-2xx      *)
(* status with or without a text, or it answers 2xx with a body that is    *)
(* not JSON, that is the JSON null, that is JSON without a classification  *)
(* (for instance {}), or that is a prediction.                             *)
MlOutcomes ==
  { "network error", "timeout", "non-2xx", "non-2xx without text",
    "2xx not JSON", "2xx null", "2xx without classification", "2xx prediction" }

(* fetch on a string that is no URL always rejects. *)
OutcomesAt(url) ==
  IF hostname(url.s) = "TypeError" THEN {"network error"} ELSE MlOutcomes

(* A prediction of the ML service. *)
ServicePrediction(sensorData) ==
  Prediction(
    [will_fail_soon |-> FALSE, failure_probability |-> 5,
     confidence |-> "Medium", threshold_minutes |-> 60],
    [minutes_to_failure |-> 600, hours_to_failure |-> 10, status |-> "Normal"],
    Len(readings(sensorData)))

(* await mlResponse.json(), when it resolves. *)
JsonOf(outcome, sensorData) ==
  CASE outcome = "2xx prediction" -> ServicePrediction(sensorData)
    [] outcome = "2xx without classification" -> [shape |-> "other"]
    [] OTHER -> NullPrediction

Ml(mlPrediction, mlServiceStatus, mlServiceError) ==
  [mlPrediction |-> mlPrediction, mlServiceStatus |-> mlServiceStatus,
   mlServiceError |-> mlServiceError]

(* The try block around fetch. *)
callMlService_AlwaysAvailable(outcome, sensorData) ==
  Ml(JsonOf(outcome, sensorData), "available", "null")

callMlService(outcome, sensorData) ==
  CASE outcome \in {"2xx prediction", "2xx null", "2xx without classification"} ->
         Ml(JsonOf(outcome, sensorData), "available", "null")
    [] outcome = "non-2xx" -> Ml(NullPrediction, "unavailable", "errorText")
    [] outcome = "non-2xx without text" ->
         Ml(NullPrediction, "unavailable", "ML service error: status")
    [] OTHER -> Ml(NullPrediction, "unavailable", "error.message")

(* mlPrediction, mlServiceStatus and mlServiceError before the response    *)
(* is built.                                                               *)
mlPart(url, sensorData, outcome) ==
  IF ~canCallMlService(url)
  THEN Ml(IF Truthy(sensorData["vibration_peak_g"]) \/ Truthy(sensorData["vibrationRms"])
          THEN syntheticPrediction(vibrationValue(sensorData))
          ELSE NullPrediction,
          "disabled", "ML service is not configured for this deployment")
  ELSE IF Len(readings(sensorData)) < 1
  THEN Ml(NullPrediction, "unavailable", "Not enough vibration readings")
  ELSE callMlService(outcome, sensorData)

(* The response of the outer catch. *)
ErrorResponse ==
  [status |-> 500, success |-> FALSE, healthScore |-> NoResult,
   mlPrediction |-> NullPrediction, mlServiceStatus |-> "none",
   mlServiceError |-> "none"]

(* The mlPrediction field of the response. *)
camelCase(mlPrediction) ==
  IF mlPrediction.shape = "null" THEN NullPrediction
  ELSE [shape |-> "prediction",
        classification |->
          [willFailSoon |-> mlPrediction.classification.will_fail_soon,
           failureProbability |-> mlPrediction.classification.failure_probability,
           confidence |-> mlPrediction.classification.confidence,
           thresholdMinutes |-> mlPrediction.classification.threshold_minutes],
        regression |->
          [minutesToFailure |-> mlPrediction.regression.minutes_to_failure,
           hoursToFailure |-> mlPrediction.regression.hours_to_failure,
           status |-> mlPrediction.regression.status],
        readingsUsed |-> mlPrediction.readings_used]

(* NextResponse.json({...}); reading will_fail_soon of an undefined        *)
(* classification throws, outside the try block around fetch.              *)
respond(healthResult, ml) ==
  IF ml.mlPrediction.shape = "other" THEN ErrorResponse
  ELSE [status |-> 200, success |-> TRUE, healthScore |-> healthResult,
        mlPrediction |-> camelCase(ml.mlPrediction),
        mlServiceStatus |-> ml.mlServiceStatus,
        mlServiceError |-> ml.mlServiceError]

(* Whether the handler reaches fetch. *)
Fetches(url, b) ==
  b.k = "object" /\ canCallMlService(url) /\ Len(readings(b.sensorData)) >= 1

(* The requests fetch sends: JSON.stringify({ readings }) to /predict/both, *)
(* none when the string is no URL.                                         *)
fetchCalls(url, b) ==
  IF Fetches(url, b) /\ hostname(url.s) # "TypeError"
  THEN << [url |-> url.s, readings |-> readings(b.sensorData)] >>
  ELSE << >>

(* The handler, from request.json() to the response. *)
handle(url, b, outcome) ==
  IF b.k = "unparseable" THEN ErrorResponse
  ELSE respond(calculateHealthScore(healthInput(b.sensorData)),
               mlPart(url, b.sensorData, outcome))

ApiInit ==
  /\ reading = [p \in Params |-> Undefined]
  /\ result = NoResult
  /\ pc = "idle"
  /\ ExpertIdle
  /\ ML_SERVICE_URL \in Urls
  /\ body \in Bodies
  /\ mlOutcome = "not called"
  /\ response = NoResponse
  /\ apiPc = "received"
  /\ mlCalls = <<>>
  /\ calls = <<>>
  /\ PageIdle

(* A request is handled. *)
POST ==
  /\ apiPc = "received"
  /\ \E outcome \in (IF Fetches(ML_SERVICE_URL, body)
                     THEN OutcomesAt(ML_SERVICE_URL) ELSE {"not called"}) :
       /\ mlOutcome' = outcome
       /\ response' = handle(ML_SERVICE_URL, body, outcome)
  /\ mlCalls' = mlCalls \o fetchCalls(ML_SERVICE_URL, body)
  /\ apiPc' = "answered"
  /\ UNCHANGED <<ML_SERVICE_URL, body>>
  /\ UNCHANGED healthVars
  /\ UNCHANGED expertVars
  /\ UNCHANGED <<callVars, pageVars>>

ApiNext == POST

ApiSpec == ApiInit /\ [][ApiNext]_vars

----------------------------------------------------------------------------
(* Properties of POST /api/ml/predict.                                     *)

(* A request with a JSON object body has been answered. *)
Answered == apiPc = "answered" /\ body.k = "object"

Unconfigured == ~canCallMlService(ML_SERVICE_URL)

(* The ML service was called and could not be reached. *)
Unreachable == mlOutcome \in {"network error", "timeout"}

(* The snapshot of the request as calculateHealthScore reads it. *)
Snapshot == [p \in Params |-> body.sensorData[p]]

(* C18, as stated: when the ML service is unreachable or not configured,   *)
(* the healthScore of the response is calculateHealthScore of the          *)
(* request's own sensorData, whatever vibration fields it carries, and     *)
(* mlServiceStatus is not available.                                       *)
C18_DirectSnapshot ==
  (Answered /\ (Unconfigured \/ Unreachable)) =>
    /\ response.healthScore = calculateHealthScore(Snapshot)
    /\ response.mlServiceStatus # "available"

(* C18, amended: when the ML service is unreachable or not configured,     *)
(* mlServiceStatus is not available and the healthScore of the response is *)
(* calculateHealthScore of the request's sensorData with a non-zero        *)
(* vibration_peak_g taken as its vibrationRms; it is that of the           *)
(* sensorData itself when vibration_peak_g is absent, null or 0.           *)
C18_PeakTakenAsRms ==
  (Answered /\ (Unconfigured \/ Unreachable)) =>
    LET peak == body.sensorData["vibration_peak_g"]
    IN /\ response.success
       /\ response.mlServiceStatus \in {"unavailable", "disabled"}
       /\ response.healthScore =
            IF IsNumber(peak) /\ peak.v # 0
            THEN calculateHealthScore([Snapshot EXCEPT !["vibrationRms"] = peak])
            ELSE calculateHealthScore(Snapshot)

(* A request whose vibration_peak_g is critical and whose vibrationRms is  *)
(* not has been answered with the vibration factor of the peak.            *)
C18_Witness ==
  /\ Answered
  /\ Unreachable
  /\ body.sensorData["vibration_peak_g"] = Num(451)
  /\ body.sensorData["vibrationRms"] = Num(20)
  /\ body.sensorData["bearingTemp"] = Undefined
  /\ response.healthScore.score = 75 * Scale
  /\ calculateHealthScore(Snapshot).score = 100 * Scale

(* A failure of the ML call, as the response reports it. *)
Degraded ==
  /\ response.mlServiceStatus \in {"unavailable", "disabled"}
  /\ response.mlServiceError \notin {"null", "none"}

(* C19: a request with a JSON object body is answered with success = true  *)
(* and the formula-based healthScore whatever the ML call does, never with *)
(* the 500 response, and a failed ML call shows in mlServiceStatus and     *)
(* mlServiceError only.                                                    *)
C19_NeverFatal ==
  Answered =>
    /\ response.success
    /\ response.status = 200
    /\ response.healthScore = calculateHealthScore(healthInput(body.sensorData))
    /\ (Unconfigured \/ mlOutcome \notin {"not called", "2xx prediction", "2xx null"})
         => Degraded

(* C20: with ML_SERVICE_URL unset, empty or on localhost / 127.0.0.1 the   *)
(* response has mlServiceStatus disabled; its mlPrediction is null without *)
(* a non-zero vibration value v (vibration_peak_g, else vibrationRms) and  *)
(* otherwise has readingsUsed 1, hoursToFailure = floor(minutes / 60) and  *)
(* 0.85 / true / 1440 / Critical for v > 0.5, 0.6 / false / 10080 / Normal *)
(* for 0.2 < v <= 0.5, 0.15 / false / 43200 / Normal for v <= 0.2.         *)
C20_SyntheticBands ==
  (Answered /\ ( \/ ML_SERVICE_URL = Unset
                 \/ ML_SERVICE_URL = Str("")
                 \/ /\ ML_SERVICE_URL.k = "string"
                    /\ hostname(ML_SERVICE_URL.s) \in {"localhost", "127.0.0.1"} )) =>
    LET sd == body.sensorData
        peak == sd["vibration_peak_g"]
        rms == sd["vibrationRms"]
        present(x) == IsNumber(x) /\ x.v # 0
        v == IF present(peak) THEN peak.v ELSE rms.v
        p == response.mlPrediction
    IN /\ response.success
       /\ response.mlServiceStatus = "disabled"
       /\ IF ~present(peak) /\ ~present(rms) THEN p = NullPrediction
          ELSE /\ p.shape = "prediction"
               /\ p.readingsUsed = 1
               /\ p.regression.hoursToFailure * 60 <= p.regression.minutesToFailure
               /\ p.regression.minutesToFailure < (p.regression.hoursToFailure + 1) * 60
               /\ v > 50 =>
                    /\ p.classification.failureProbability = 85
                    /\ p.classification.willFailSoon = TRUE
                    /\ p.regression.minutesToFailure = 1440
                    /\ p.regression.status = "Critical"
               /\ (20 < v /\ v <= 50) =>
                    /\ p.classification.failureProbability = 60
                    /\ p.classification.willFailSoon = FALSE
                    /\ p.regression.minutesToFailure = 10080
                    /\ p.regression.status = "Normal"
               /\ v <= 20 =>
                    /\ p.classification.failureProbability = 15
                    /\ p.classification.willFailSoon = FALSE
                    /\ p.regression.minutesToFailure = 43200
                    /\ p.regression.status = "Normal"

(* A localhost deployment has answered a request whose vibrationRms is on  *)
(* the upper limit, 0.5, with the prediction of the middle band.           *)
C20_Witness ==
  /\ Answered
  /\ ML_SERVICE_URL = Str("http://localhost:8000")
  /\ ~IsNumber(body.sensorData["vibration_peak_g"])
  /\ body.sensorData["vibrationRms"] = Num(50)
  /\ response.mlPrediction.shape = "prediction"
  /\ response.mlPrediction.classification.failureProbability = 60
  /\ response.mlPrediction.regression.hoursToFailure = 168

(* C24: in a successful response mlServiceStatus is available exactly when *)
(* mlServiceError is null; available means the ML service answered 2xx    *)
(* and mlPrediction is what it answered; unavailable means mlPrediction is *)
(* null.                                                                   *)
C24_StatusConsistent ==
  (Answered /\ response.success) =>
    /\ response.mlServiceStatus = "available" <=> response.mlServiceError = "null"
    /\ response.mlServiceStatus = "available" =>
         /\ mlOutcome \in {"2xx prediction", "2xx null"}
         /\ response.mlPrediction = camelCase(JsonOf(mlOutcome, body.sensorData))
    /\ response.mlServiceStatus = "unavailable" =>
         response.mlPrediction = NullPrediction

(* The ML service has answered 2xx with a prediction and the response      *)
(* carries it. *)
C24_Witness ==
  /\ Answered
  /\ response.success
  /\ response.mlServiceStatus = "available"
  /\ response.mlPrediction.shape = "prediction"
  /\ response.mlPrediction.regression.minutesToFailure = 600

(* C25: the ML service is called at most once per request, only when       *)
(* ML_SERVICE_URL is a non-empty URL off localhost and vibration_peak_g is *)
(* non-zero, with exactly one reading built from vibration_peak_g; the     *)
(* vibrationReadings of the request are never sent, and a configured       *)
(* service without vibration_peak_g gives unavailable without a call.      *)
C25_SingleCallFromPeak ==
  Answered =>
    LET peak == body.sensorData["vibration_peak_g"]
    IN /\ Len(mlCalls) <= 1
       /\ Len(mlCalls) = 1 =>
            /\ ML_SERVICE_URL.k = "string"
            /\ ML_SERVICE_URL.s # ""
            /\ hostname(ML_SERVICE_URL.s) \notin {"TypeError", "localhost", "127.0.0.1"}
            /\ IsNumber(peak) /\ peak.v # 0
            /\ mlCalls[1].readings = << [vibration_rms |-> peak] >>
       /\ ( /\ canCallMlService(ML_SERVICE_URL)
            /\ body.vibrationReadings # <<>>
            /\ ~(IsNumber(peak) /\ peak.v # 0) ) =>
            /\ mlCalls = <<>>
            /\ response.mlServiceStatus = "unavailable"

(* A request carrying vibrationReadings, a vibration_peak_g and another    *)
(* vibrationRms has led to one call with the reading of the peak.          *)
C25_Witness ==
  /\ Answered
  /\ body.vibrationReadings # <<>>
  /\ body.sensorData["vibration_peak_g"] = Num(21)
  /\ body.sensorData["vibrationRms"] = Num(450)
  /\ mlCalls = << [url |-> "https://ml.example.com",
                   readings |-> << [vibration_rms |-> Num(21)] >>] >>

----------------------------------------------------------------------------
(* Further properties of the expert system.                                *)

(* C23: the results of runDiagnosis follow the order of the rules in the   *)
(* catalog, hold at most one result per rule, and each result has the id,  *)
(* level, damage and solution of its rule.                                 *)
C23_ResultsInCatalogOrder ==
  Diagnosed =>
    /\ \A a \in 1..Len(results) :
         \E i \in 1..Len(rules) :
           /\ rules[i].id = results[a].id
           /\ rules[i].level = results[a].level
           /\ rules[i].damage = results[a].damage
           /\ rules[i].solution = results[a].solution
    /\ \A a, b \in 1..Len(results) :
         a < b =>
           \E i, j \in 1..Len(rules) :
             i < j /\ rules[i].id = results[a].id /\ rules[j].id = results[b].id

(* A diagnosis in which several rules fired and a rule between two of them *)
(* did not.                                                                *)
C23_Witness ==
  /\ Diagnosed
  /\ Len(results) >= 2
  /\ \E a \in 1..(Len(results) - 1) : results[a + 1].id > results[a].id + 1

(* C26: a conclusion has a percent between 40 and 100, and its label is    *)
(* the one of the percent shown: Minor for percent <= 40, Moderate for     *)
(* 40 < percent <= 70, Severe for percent > 70.                            *)
C26_PercentRangeAndLabel ==
  (phase = "concluded" /\ ~conclusion.isNull) =>
    /\ 40 * Scale <= conclusion.percent
    /\ conclusion.percent <= 100 * Scale
    /\ conclusion.label = "Minor" <=> conclusion.percent <= 40 * Scale
    /\ conclusion.label = "Moderate" <=>
         (40 * Scale < conclusion.percent /\ conclusion.percent <= 70 * Scale)
    /\ conclusion.label = "Severe" <=> conclusion.percent > 70 * Scale

(* A conclusion whose percent was rounded to one decimal and lies just     *)
(* above 70.                                                               *)
C26_Witness ==
  /\ phase = "concluded"
  /\ ~conclusion.isNull
  /\ conclusion.label = "Severe"
  /\ conclusion.percent < 75 * Scale
  /\ totalScore(results) * Scale # conclusion.percent * Len(results)

----------------------------------------------------------------------------
(* Invocations of calculateHealthScore running side by side, one statement *)
(* group at a time.  An invocation is called (at = 0), has declared its    *)
(* locals and is about to run check at (1 .. 8), is about to clamp, sort   *)
(* and return (at = 9), or has returned (at = 10).                         *)

MaxCalls == 2

CallSnapshots == UniformSnapshots \cup {TypicalSnapshot}

Called(r) ==
  [reading |-> r, given |-> r, at |-> 0, score |-> 0, factors |-> <<>>,
   result |-> NoResult]

frameOf_Module(i) == 1

(* The frame that holds the score and factors invocation i works on: its   *)
(* own, since both are declared inside the function.                       *)
frameOf(i) == i

(* The check in position k of the function body. *)
check(st, r, k) ==
  CASE EvalOrder[k] = "gridVoltage" -> voltageFactor(st, r["gridVoltage"])
    [] EvalOrder[k] = "gridFrequency" -> frequencyFactor(st, r["gridFrequency"])
    [] OTHER -> std(st, r, EvalOrder[k])

CallsInit ==
  /\ reading = [p \in Params |-> Undefined]
  /\ result = NoResult
  /\ pc = "idle"
  /\ ExpertIdle
  /\ ML_SERVICE_URL = Unset
  /\ body = NoBody
  /\ mlOutcome = "not called"
  /\ response = NoResponse
  /\ apiPc = "idle"
  /\ mlCalls = <<>>
  /\ PageIdle
  /\ calls \in [1..MaxCalls -> { Called(r) : r \in CallSnapshots }]

(* let score = 100; const factors = []; *)
Enter(i) ==
  /\ calls[i].at = 0
  /\ calls' = [calls EXCEPT ![frameOf(i)].score = 100 * Scale,
                            ![frameOf(i)].factors = <<>>,
                            ![i].at = 1]
  /\ UNCHANGED <<healthVars, expertVars, apiVars, pageVars>>

(* One addFactor call or one deviation block. *)
Check(i) ==
  /\ calls[i].at \in 1..Len(EvalOrder)
  /\ LET frame == calls[frameOf(i)]
         st == check([score |-> frame.score, factors |-> frame.factors],
                     calls[i].reading, calls[i].at)
     IN calls' = [calls EXCEPT ![frameOf(i)].score = st.score,
                               ![frameOf(i)].factors = st.factors,
                               ![i].at = @ + 1]
  /\ UNCHANGED <<healthVars, expertVars, apiVars, pageVars>>

(* The clamp, the category, the sort and the return. *)
Return(i) ==
  /\ calls[i].at = Len(EvalOrder) + 1
  /\ LET frame == calls[frameOf(i)]
         score == Clamp(frame.score)
         sorted == SortFactors(frame.factors)
     IN calls' = [calls EXCEPT ![frameOf(i)].score = score,
                               ![frameOf(i)].factors = sorted,
                               ![i].result = [score |-> MathRound(score),
                                              category |-> Category(score),
                                              factors |-> sorted],
                               ![i].at = @ + 1]
  /\ UNCHANGED <<healthVars, expertVars, apiVars, pageVars>>

CallsNext ==
  \E i \in 1..MaxCalls : Enter(i) \/ Check(i) \/ Return(i)

CallsSpec == CallsInit /\ [][CallsNext]_vars

(* C22: however invocations of calculateHealthScore interleave, each       *)
(* returns what it returns when run alone on its snapshot, and every       *)
(* snapshot stays as it was passed.                                        *)
C22_InvocationsIndependent ==
  \A i \in 1..Len(calls) :
    /\ calls[i].reading = calls[i].given
    /\ calls[i].at = Len(EvalOrder) + 2 =>
         calls[i].result = calculateHealthScore(calls[i].given)

(* An invocation on the typical snapshot has returned 55 while another on  *)
(* a different snapshot is between two of its deductions.                  *)
C22_Witness ==
  /\ Len(calls) >= 2
  /\ calls[1].at = Len(EvalOrder) + 2
  /\ calls[1].given = TypicalSnapshot
  /\ calls[1].result.score = 55 * Scale
  /\ calls[2].at = 4
  /\ calls[2].given # TypicalSnapshot
  /\ calls[2].score < 100 * Scale

----------------------------------------------------------------------------
(* The ML prediction part of the AI Center page: Firebase events, the      *)
(* requests to /api/ml/predict and their completions.  An event is the     *)
(* value of the snapshot; its timestamp is its position of arrival, which  *)
(* is also what Date.now() gives then.  predictionResult carries the       *)
(* position of the request it came from in the field request.             *)

MaxEvents == 2
MaxRequests == 2

(* slice(-50) *)
HistoryCap == 50

Event(rms, peak, timestamp, k) ==
  [isNull |-> FALSE, vibration_rms_mm_s |-> rms, vibration_peak_g |-> peak,
   timestamp |-> timestamp, arrival |-> k]

(* snapshot.val() of a location that holds nothing. *)
NullEvent(k) ==
  [isNull |-> TRUE, vibration_rms_mm_s |-> Undefined,
   vibration_peak_g |-> Undefined, timestamp |-> Undefined, arrival |-> k]

(* The events that can arrive as number k: nothing, an object without      *)
(* vibration fields, a vibration_rms_mm_s of 0, of 3.0 (without a          *)
(* timestamp) or of 5.0, and a vibration_peak_g alone.                     *)
EventsAt(k) ==
  { NullEvent(k), Event(Undefined, Undefined, Num(k), k),
    Event(Num(0), Undefined, Num(k), k), Event(Num(300), Undefined, Undefined, k),
    Event(Num(500), Num(10), Num(k), k), Event(Undefined, Num(21), Num(k), k) }

(* The object passed to setLatestSensorData; the events carry none of the  *)
(* other fields.                                                           *)
latestOf(data) ==
  [isNull |-> FALSE,
   fields |-> [p \in Params |->
                 IF p = "vibrationRms" THEN data.vibration_rms_mm_s ELSE Undefined]]

(* The last n elements of a sequence: slice(-n). *)
SliceLast(seq, n) ==
  IF Len(seq) <= n THEN seq ELSE SubSeq(seq, Len(seq) - n + 1, Len(seq))

appendReading_KeepsOldest(prev, data) ==
  LET newReading == [vibration_rms |-> data.vibration_rms_mm_s,
                     timestamp |-> OrElse(data.timestamp, Num(data.arrival))]
      all == Append(prev, newReading)
  IN IF Len(all) <= HistoryCap THEN all ELSE SubSeq(all, 1, HistoryCap)

(* The updater passed to setVibrationHistory. *)
appendReading(prev, data) ==
  LET newReading == [vibration_rms |-> data.vibration_rms_mm_s,
                     timestamp |-> OrElse(data.timestamp, Num(data.arrival))]
  IN SliceLast(Append(prev, newReading), HistoryCap)

(* The body runAutoMLPrediction sends: of the fields the handler reads it  *)
(* has vibration_peak_g alone.                                             *)
autoBody(data) ==
  [k |-> "object",
   sensorData |-> [f \in SensorFields |->
                     IF f = "vibration_peak_g"
                     THEN OrElse(data.vibration_peak_g, data.vibration_rms_mm_s)
                     ELSE Undefined],
   vibrationReadings |-> <<>>]

(* The body runPrediction sends; a null sensorData reads as no field. *)
manualBody(history, latest) ==
  [k |-> "object",
   sensorData |-> [f \in SensorFields |->
                     IF f = "vibration_peak_g" \/ latest.isNull THEN Undefined
                     ELSE latest.fields[f]],
   vibrationReadings |-> history]

Request(kind, b) == [kind |-> kind, body |-> b, state |-> "in flight"]

(* How a request can end: fetch or response.json() rejects, or the handler *)
(* answers, here without an ML service, with one that predicts, or with    *)
(* one that answers 2xx without a classification.                          *)
Answers ==
  { [throws |-> TRUE, url |-> Unset, outcome |-> "not called"],
    [throws |-> FALSE, url |-> Unset, outcome |-> "not called"],
    [throws |-> FALSE, url |-> Str("https://ml.example.com"), outcome |-> "2xx prediction"],
    [throws |-> FALSE, url |-> Str("https://ml.example.com"),
     outcome |-> "2xx without classification"] }

(* The result set in the catch block. *)
fallback(kind) ==
  IF kind = "auto"
  THEN [score |-> 85 * Scale, category |-> "Excellent", factors |-> <<>>]
  ELSE [score |-> 0, category |-> "Healthy", factors |-> <<>>]

Shown(i, healthScore, mlPrediction, mlServiceStatus, mlServiceError) ==
  [isNull |-> FALSE, request |-> i, healthScore |-> healthScore,
   mlPrediction |-> mlPrediction, mlServiceStatus |-> mlServiceStatus,
   mlServiceError |-> mlServiceError]

(* Events arrive from a fresh page, or after HistoryCap events with a      *)
(* vibration_rms_mm_s of 0, which start no request and fill the history.   *)
Preloaded(n) == [k \in 1..n |-> Event(Num(0), Undefined, Num(k), k)]

RECURSIVE historyOf(_)
historyOf(log) ==
  IF log = <<>> THEN <<>>
  ELSE appendReading(historyOf(SubSeq(log, 1, Len(log) - 1)), log[Len(log)])

PageInit ==
  /\ reading = [p \in Params |-> Undefined]
  /\ result = NoResult
  /\ pc = "idle"
  /\ ExpertIdle
  /\ ML_SERVICE_URL = Unset
  /\ body = NoBody
  /\ mlOutcome = "not called"
  /\ response = NoResponse
  /\ apiPc = "idle"
  /\ mlCalls = <<>>
  /\ calls = <<>>
  /\ predictionResult = NullResult
  /\ isLoadingPrediction = FALSE
  /\ requests = <<>>
  /\ \E n \in {0, HistoryCap} :
       /\ events = Preloaded(n)
       /\ vibrationHistory = historyOf(Preloaded(n))
       /\ latestSensorData = IF n = 0 THEN NullData ELSE latestOf(Preloaded(n)[n])

(* The number of events so far allows another one. *)
EventBudget ==
  \/ Len(events) < MaxEvents
  \/ Len(events) >= HistoryCap /\ Len(events) < HistoryCap + MaxEvents

(* The onValue callback, with the synchronous part of runAutoMLPrediction  *)
(* when the event starts one.                                              *)
FirebaseEvent(data) ==
  /\ EventBudget
  /\ events' = Append(events, data)
  /\ IF data.isNull
     THEN UNCHANGED <<latestSensorData, vibrationHistory, isLoadingPrediction, requests>>
     ELSE /\ latestSensorData' = latestOf(data)
          /\ vibrationHistory' =
               IF data.vibration_rms_mm_s.k # "undefined"
               THEN appendReading(vibrationHistory, data)
               ELSE vibrationHistory
          /\ IF Truthy(data.vibration_peak_g) \/ Truthy(data.vibration_rms_mm_s)
             THEN /\ Len(requests) < MaxRequests
                  /\ isLoadingPrediction' = TRUE
                  /\ requests' = Append(requests, Request("auto", autoBody(data)))
             ELSE UNCHANGED <<isLoadingPrediction, requests>>
  /\ UNCHANGED predictionResult
  /\ UNCHANGED <<healthVars, expertVars, apiVars, callVars>>

(* runPrediction up to its await.  The page defines it and binds it to no  *)
(* control.                                                                *)
runPrediction ==
  /\ Len(requests) < MaxRequests
  /\ isLoadingPrediction' = TRUE
  /\ requests' = Append(requests,
                   Request("manual", manualBody(vibrationHistory, latestSensorData)))
  /\ UNCHANGED <<predictionResult, vibrationHistory, latestSensorData, events>>
  /\ UNCHANGED <<healthVars, expertVars, apiVars, callVars>>

(* The rest of runAutoMLPrediction or runPrediction for request i: the     *)
(* result, the catch block and the finally block.                          *)
Complete(i, answer) ==
  /\ requests[i].state = "in flight"
  /\ LET json == handle(answer.url, requests[i].body, answer.outcome)
     IN IF answer.throws
        THEN /\ predictionResult' =
                  Shown(i, fallback(requests[i].kind), NullPrediction,
                        "unavailable", "fallback")
             /\ requests' = [requests EXCEPT ![i].state = "set"]
        ELSE IF json.success
        THEN /\ predictionResult' =
                  Shown(i, json.healthScore, json.mlPrediction,
                        json.mlServiceStatus, json.mlServiceError)
             /\ requests' = [requests EXCEPT ![i].state = "set"]
        ELSE /\ UNCHANGED predictionResult
             /\ requests' = [requests EXCEPT ![i].state = "ignored"]
  /\ isLoadingPrediction' = FALSE
  /\ UNCHANGED <<vibrationHistory, latestSensorData, events>>
  /\ UNCHANGED <<healthVars, expertVars, apiVars, callVars>>

PageNext ==
  \/ \E data \in EventsAt(Len(events) + 1) : FirebaseEvent(data)
  \/ runPrediction
  \/ \E i \in 1..Len(requests), answer \in Answers : Complete(i, answer)

PageSpec == PageInit /\ [][PageNext]_vars

----------------------------------------------------------------------------
(* Properties of the AI Center page.                                       *)

(* Every request so far was started by a Firebase event (runPrediction is  *)
(* defined in the page, and no control of the page calls it).              *)
AutoOnly == \A i \in 1..Len(requests) : requests[i].kind = "auto"

(* C27: the healthScore held in predictionResult has one of the categories *)
(* Healthy, At Risk and Critical, and it is the category of its score;     *)
(* stated for the requests that Firebase events start.                     *)
C27_CategoryFromScore ==
  (AutoOnly /\ ~predictionResult.isNull) =>
    /\ predictionResult.healthScore.category \in {"Healthy", "At Risk", "Critical"}
    /\ predictionResult.healthScore.category =
         Category(predictionResult.healthScore.score)

(* C28: isLoadingPrediction is true while a prediction request is in       *)
(* flight; stated for the requests that Firebase events start.             *)
C28_LoadingWhileInFlight ==
  (AutoOnly /\ \E i \in 1..Len(requests) : requests[i].state = "in flight") =>
    isLoadingPrediction

(* C29: once every request has completed, predictionResult is not that of  *)
(* a request older than another one that set a result; stated for the      *)
(* requests that Firebase events start.                                    *)
C29_NewestWins ==
  (AutoOnly /\ \A i \in 1..Len(requests) : requests[i].state # "in flight") =>
    \A i \in 1..Len(requests) :
      requests[i].state = "set" =>
        ~predictionResult.isNull /\ predictionResult.request >= i

(* The readings of the events that carried a vibration_rms_mm_s. *)
RECURSIVE Carried(_)
Carried(log) ==
  IF log = <<>> THEN <<>>
  ELSE LET e == log[Len(log)]
           rest == Carried(SubSeq(log, 1, Len(log) - 1))
       IN IF ~e.isNull /\ e.vibration_rms_mm_s.k # "undefined"
          THEN Append(rest, [vibration_rms |-> e.vibration_rms_mm_s,
                             timestamp |-> Num(e.arrival)])
          ELSE rest

(* C30: vibrationHistory holds at most 50 entries, the readings of the     *)
(* most recent events that carried a vibration_rms_mm_s, in arrival order. *)
C30_HistoryIsRecentWindow ==
  LET carried == Carried(events)
      n == Len(carried)
      m == Len(vibrationHistory)
  IN /\ m <= 50
     /\ m = IF n < 50 THEN n ELSE 50
     /\ \A j \in 1..m : vibrationHistory[j] = carried[n - m + j]

(* More than 50 events carried a value, one in between did not, and the    *)
(* history starts after the oldest ones.                                   *)
C30_Witness ==
  /\ Len(Carried(events)) = 51
  /\ Len(events) = 52
  /\ Len(vibrationHistory) = 50
  /\ vibrationHistory[1].timestamp = Num(2)
  /\ vibrationHistory[50].timestamp = Num(52)

====
